---- MODULE Spec2Model ----
(***************************************************************************)
(* Debate orchestration of agentscope-api: the session state machine of    *)
(* DebateService (start_debate, run_debate, cancel_debate and the          *)
(* persistence helpers) and the round runner of DebateManager              *)
(* (run_debate_rounds, get_agent_response, _get_moderator_summary,         *)
(* generate_conclusion), for one debate session.                           *)
(*                                                                         *)
(* The request handler of Start, the background task run_debate and the    *)
(* request handler of Cancel run in different threads and share only the   *)
(* database row of the session; every commit is one atomic write of the    *)
(* columns the code assigned.                                              *)
(***************************************************************************)
EXTENDS Integers, Sequences, FiniteSets, TLC

\* ------------------------------------------------------------------ bounds
\* Largest participant list and round count a Start request carries here.
MaxAgents == 2
MaxRounds == 3
\* How many events the environment contributes to one behaviour: a failing
\* call of the generation capability, a failing database call, a Cancel
\* request.
MaxEvents == 1
\* How many tokens stand before and after the body of a reply text, taken
\* together.
MaxPad == 2

\* ------------------------------------------------------- program constants
\* DebateStartRequest.agent_ids: Field(..., min_length=2, ...)
MinAgents == 2
\* moderator: Optional[AgentBase] = None / moderator_id falsy: no moderator.
NoModerator == 0
\* The id of the moderator agent when one is configured (never a debater id,
\* which are 1..N).
ModeratorAgent == 9
\* progress = ((round_num + 1) / self.rounds) * 90
RoundShare == 90
\* debate.progress = 100.0 ; min(max(progress, 0.0), 100.0)
FullProgress == 100
\* DebateStartRequest.agent_ids: Field(..., max_length=8)
MaxAgentsAllowed == 8
\* DebateStartRequest.rounds: Field(3, ge=1, le=10)
MaxRoundsAllowed == 10

\* ------------------------------------------------- progress: exact rationals
\* The code computes progress in double precision; for rounds <= 6 every
\* value ((k / R) * 90) is exact in a double, so it is kept here as the
\* rational n/d.
Rat(n, d) == [n |-> n, d |-> d]
RatLE(a, b) == a.n * b.d <= b.n * a.d
RatEq(a, b) == a.n * b.d = b.n * a.d
RatMin(a, b) == IF RatLE(a, b) THEN a ELSE b
RatMax(a, b) == IF RatLE(a, b) THEN b ELSE a

\* DebateStatus values; "none" is the absence of a row before Start commits.
Terminal == {"completed", "failed", "expired"}

\* ------------------------------------------------- the synthesis reply: text
\* A text is a sequence of tokens: a token is one character that matters to
\* the parsing ("{", ":", the straight quote, a newline ...) or a run of
\* other characters (a word, a number).
Quote == "<quote>"
LeftQuote == "<left-quote>"
RightQuote == "<right-quote>"
Newline == "<nl>"
Return == "<cr>"
Space == "<sp>"
Bom == "<bom>"
Fence == "<fence>"
JsonTag == "json"

\* What \s of re and str.strip() take for white space, and what json skips
\* between tokens. The byte-order mark is in neither.
Whitespace == {Space, Newline, Return}
\* The characters json.loads refuses inside a string.
ControlChars == {Newline, Return}
\* Number literals: one inside 0..1 and one outside.
Numbers == {"0.9", "9"}

\* The values json.loads builds, each with the name of its Python type.
PyNone == [type |-> "NoneType", val |-> <<>>]
PyStr(s) == [type |-> "str", val |-> s]
PyFloat(tok) == [type |-> "float", val |-> <<tok>>]
PyList(items) == [type |-> "list", val |-> items]
\* A dict is the sequence of its (key, value) pairs in insertion order.
PyDict(pairs) == [type |-> "dict", val |-> pairs]

\* dict.get(key, default): the value of the last pair with the key (a later
\* duplicate replaces an earlier one), the default when the key is absent.
RECURSIVE dict_get(_, _, _)
dict_get(pairs, key, default) ==
    IF Len(pairs) = 0 THEN default
    ELSE IF pairs[Len(pairs)].k = key THEN pairs[Len(pairs)].v
    ELSE dict_get(SubSeq(pairs, 1, Len(pairs) - 1), key, default)

\* ---- json.loads
\* The first position from i on that holds no white space.
RECURSIVE SkipWhitespace(_, _)
SkipWhitespace(t, i) ==
    IF i <= Len(t) /\ t[i] \in Whitespace THEN SkipWhitespace(t, i + 1) ELSE i

\* A parse that failed, and one that gave value v and stopped before next.
ParseError == [ok |-> FALSE, value |-> PyNone, next |-> 0]
Parsed(v, n) == [ok |-> TRUE, value |-> v, next |-> n]

\* The closing quote of the string whose content starts at j: 0 when the
\* text ends first or a control character comes first.
RECURSIVE StringEnd(_, _)
StringEnd(t, j) ==
    IF j > Len(t) THEN 0
    ELSE IF t[j] = Quote THEN j
    ELSE IF t[j] \in ControlChars THEN 0
    ELSE StringEnd(t, j + 1)

ParseString(t, i) ==
    LET e == StringEnd(t, i + 1) IN
    IF e = 0 THEN ParseError ELSE Parsed(PyStr(SubSeq(t, i + 1, e - 1)), e + 1)

RECURSIVE ParseValue(_, _)
RECURSIVE ParseMember(_, _, _)
RECURSIVE ParseElement(_, _, _)

\* The members of an object from position i on, pairs being those before.
ParseMember(t, i, pairs) ==
    IF i > Len(t) \/ t[i] # Quote THEN ParseError
    ELSE LET key == ParseString(t, i) IN
    IF ~key.ok THEN ParseError
    ELSE LET c == SkipWhitespace(t, key.next) IN
    IF c > Len(t) \/ t[c] # ":" THEN ParseError
    ELSE LET v == ParseValue(t, SkipWhitespace(t, c + 1)) IN
    IF ~v.ok THEN ParseError
    ELSE LET n == SkipWhitespace(t, v.next)
             ps == Append(pairs, [k |-> key.value.val, v |-> v.value]) IN
    IF n > Len(t) THEN ParseError
    ELSE IF t[n] = "}" THEN Parsed(PyDict(ps), n + 1)
    ELSE IF t[n] = "," THEN ParseMember(t, SkipWhitespace(t, n + 1), ps)
    ELSE ParseError

\* The elements of an array from position i on, items being those before.
ParseElement(t, i, items) ==
    LET v == ParseValue(t, i) IN
    IF ~v.ok THEN ParseError
    ELSE LET n == SkipWhitespace(t, v.next)
             its == Append(items, v.value) IN
    IF n > Len(t) THEN ParseError
    ELSE IF t[n] = "]" THEN Parsed(PyList(its), n + 1)
    ELSE IF t[n] = "," THEN ParseElement(t, SkipWhitespace(t, n + 1), its)
    ELSE ParseError

\* The JSON value that starts at position i.
ParseValue(t, i) ==
    IF i > Len(t) THEN ParseError
    ELSE IF t[i] = "{" THEN
        LET m == SkipWhitespace(t, i + 1) IN
        IF m <= Len(t) /\ t[m] = "}" THEN Parsed(PyDict(<<>>), m + 1)
        ELSE ParseMember(t, m, <<>>)
    ELSE IF t[i] = "[" THEN
        LET m == SkipWhitespace(t, i + 1) IN
        IF m <= Len(t) /\ t[m] = "]" THEN Parsed(PyList(<<>>), m + 1)
        ELSE ParseElement(t, m, <<>>)
    ELSE IF t[i] = Quote THEN ParseString(t, i)
    ELSE IF t[i] \in Numbers THEN Parsed(PyFloat(t[i]), i + 1)
    ELSE IF t[i] = "null" THEN Parsed(PyNone, i + 1)
    ELSE ParseError

\* json.loads(text): the one JSON value the whole text is, white space
\* around it allowed; JSONDecodeError otherwise (and for a leading
\* byte-order mark).
json_loads(t) ==
    LET v == ParseValue(t, SkipWhitespace(t, 1)) IN
    IF v.ok /\ SkipWhitespace(t, v.next) > Len(t)
    THEN [ok |-> TRUE, value |-> v.value]
    ELSE [ok |-> FALSE, value |-> PyNone]

\* ---- str and re operations of generate_structured_output
\* str.lstrip(chars), str.rstrip(chars) and str.strip() (white space).
RECURSIVE lstrip(_, _)
lstrip(t, chars) ==
    IF Len(t) > 0 /\ Head(t) \in chars THEN lstrip(Tail(t), chars) ELSE t

RECURSIVE rstrip(_, _)
rstrip(t, chars) ==
    IF Len(t) > 0 /\ t[Len(t)] \in chars
    THEN rstrip(SubSeq(t, 1, Len(t) - 1), chars)
    ELSE t

strip(t) == rstrip(lstrip(t, Whitespace), Whitespace)

\* str.replace(old, new) for one-character old and new.
replace(t, old, new) == [i \in 1..Len(t) |-> IF t[i] = old THEN new ELSE t[i]]

\* re.sub(ch + r'\s*', ' ', text): every ch, with the white space that
\* follows it, becomes one space.
RECURSIVE re_sub(_, _)
re_sub(t, ch) ==
    IF Len(t) = 0 THEN <<>>
    ELSE IF Head(t) = ch
         THEN <<Space>> \o re_sub(lstrip(Tail(t), Whitespace), ch)
         ELSE <<Head(t)>> \o re_sub(Tail(t), ch)

\* The first fence after position i, 0 when there is none.
RECURSIVE NextFence(_, _)
NextFence(t, i) ==
    IF i >= Len(t) THEN 0
    ELSE IF t[i + 1] = Fence THEN i + 1
    ELSE NextFence(t, i + 1)

\* The start of the white space that ends just before position f, not
\* before position k.
RECURSIVE TrailingWhitespace(_, _, _)
TrailingWhitespace(t, k, f) ==
    IF f > k /\ t[f - 1] \in Whitespace
    THEN TrailingWhitespace(t, k, f - 1)
    ELSE f

\* The match of ```\s*json\s*(.*?)\s*``` (labelled) or ```\s*(.*?)\s*```
\* that starts at the fence at position i: group 1, when a closing fence
\* follows (and the label, when asked for, comes first).
CodeBlockAt(t, i, labelled) ==
    LET j == SkipWhitespace(t, i + 1)
        k == IF labelled THEN SkipWhitespace(t, j + 1) ELSE j
        f == NextFence(t, k - 1)
    IN IF (labelled /\ (j > Len(t) \/ t[j] # JsonTag)) \/ f = 0
       THEN [found |-> FALSE, group |-> <<>>]
       ELSE [found |-> TRUE,
             group |-> SubSeq(t, k, TrailingWhitespace(t, k, f) - 1)]

\* re.search of the pattern: the match at the leftmost fence that has one.
RECURSIVE CodeBlockFrom(_, _, _)
CodeBlockFrom(t, i, labelled) ==
    LET f == NextFence(t, i) IN
    IF f = 0 THEN [found |-> FALSE, group |-> <<>>]
    ELSE IF CodeBlockAt(t, f, labelled).found THEN CodeBlockAt(t, f, labelled)
    ELSE CodeBlockFrom(t, f, labelled)

re_search_code_block(t, labelled) == CodeBlockFrom(t, 0, labelled)

\* Lines 184-197: the content of a ```json block if there is one, else of
\* any ``` block, else the text; then strip().
remove_code_block(t) ==
    strip(IF re_search_code_block(t, TRUE).found
          THEN re_search_code_block(t, TRUE).group
          ELSE IF re_search_code_block(t, FALSE).found
               THEN re_search_code_block(t, FALSE).group
               ELSE t)

\* Lines 206-210: lstrip(BOM).strip(); the while loop that follows
\* finds nothing left to strip.
repair_bom(t) == strip(lstrip(t, {Bom}))

\* Line 220: replace('"', '"').replace('"', '"'): both calls replace the
\* straight quote by itself.
repair_quotes(t) == replace(replace(t, Quote, Quote), Quote, Quote)

\* The repair that leaves the line breaks where they are.
repair_newlines_unrepaired(t) == t

\* Lines 226-227: re.sub(r'\n\s*', ' ', ...) then re.sub(r'\r\s*', ' ', ...).
repair_newlines(t) == re_sub(re_sub(t, Newline), Return)

\* Line 232: the dict returned when no attempt parsed.
fallback_output(t) ==
    PyDict(<<[k |-> <<"final_conclusion">>, v |-> PyStr(t)],
             [k |-> <<"error">>, v |-> PyStr(<<"JSONDecodeError">>)]>>)

\* ---- generate_structured_output
\* A response of the model: a text, None, or an exception of the call.
TextReply(t) == [kind |-> "str", text |-> t]
NoneReply == [kind |-> "none", text |-> <<>>]
RaisingReply == [kind |-> "raise", text |-> <<>>]

\* Lines 130-136: None becomes the text "空响应", a str is taken as it is.
response_text(reply) ==
    IF reply.kind = "none" THEN <<"empty-response">> ELSE reply.text

\* What generate_structured_output hands back: the value one of the four
\* json.loads calls gave (with the attempt that gave it), the fallback dict,
\* or the HTTPException that wraps an exception of the model call.
Returned(v, attempt) == [raised |-> FALSE, value |-> v, step |-> attempt]
RaisedHTTPException == [raised |-> TRUE, value |-> PyNone, step |-> "raise"]

\* generate_structured_output, lines 124-237, in one piece.
generate_structured_output(reply) ==
    IF reply.kind = "raise" THEN RaisedHTTPException
    ELSE LET t0 == remove_code_block(response_text(reply))
             t1 == repair_bom(t0)
             t2 == repair_quotes(t1)
             t3 == repair_newlines(t2)
         IN IF json_loads(t0).ok THEN Returned(json_loads(t0).value, "direct")
            ELSE IF json_loads(t1).ok
                 THEN Returned(json_loads(t1).value, "bom")
            ELSE IF json_loads(t2).ok
                 THEN Returned(json_loads(t2).value, "quotes")
            ELSE IF json_loads(t3).ok
                 THEN Returned(json_loads(t3).value, "newlines")
            ELSE Returned(fallback_output(t3), "fallback")

\* ---- generate_conclusion
\* The defaults of the six .get calls, and the text of the except clause
\* ("無法生成結論" and "結論生成失敗: ..." in the source).
NoConclusionText == PyStr(<<"no-conclusion">>)
ConclusionFailedText == PyStr(<<"conclusion-failed">>)
ZeroScore == PyFloat("0.0")

\* The dict of the except clause.
DegradedConclusion ==
    [final_conclusion |-> ConclusionFailedText,
     confidence_score |-> ZeroScore,
     consensus_points |-> PyList(<<>>),
     divergent_views |-> PyList(<<>>),
     key_arguments |-> PyDict(<<>>),
     preliminary_insights |-> PyList(<<>>)]

\* The dict of the return statement: one .get with its default per field.
conclusion_fields(d) ==
    [final_conclusion |-> dict_get(d, <<"final_conclusion">>, NoConclusionText),
     confidence_score |-> dict_get(d, <<"confidence_score">>, ZeroScore),
     consensus_points |-> dict_get(d, <<"consensus_points">>, PyList(<<>>)),
     divergent_views |-> dict_get(d, <<"divergent_views">>, PyList(<<>>)),
     key_arguments |-> dict_get(d, <<"key_arguments">>, PyDict(<<>>)),
     preliminary_insights |->
         dict_get(d, <<"preliminary_insights">>, PyList(<<>>))]

\* generate_conclusion without its except clause.
conclusion_of_output_uncaught(out) ==
    IF out.raised \/ out.value.type # "dict"
    THEN [raised |-> TRUE, value |-> DegradedConclusion]
    ELSE [raised |-> FALSE, value |-> conclusion_fields(out.value.val)]

\* generate_conclusion, lines 224-253, from the return of
\* generate_structured_output on: an exception of the call, or the
\* AttributeError of .get on a value that is no dict, is caught and gives
\* the dict of the except clause.
conclusion_of_output(out) ==
    IF out.raised \/ out.value.type # "dict"
    THEN [raised |-> FALSE, value |-> DegradedConclusion]
    ELSE [raised |-> FALSE, value |-> conclusion_fields(out.value.val)]

generate_conclusion(reply) ==
    conclusion_of_output(generate_structured_output(reply))


VARIABLES
    \* the persisted Debate row
    status, progress, conclusion, rounds, agent_ids, moderator_id,
    \* the persisted DebateMessage rows, in commit order
    messages,
    \* start_debate and the other creators (request thread): the position
    \* and the request body being handled
    start_pc, request,
    \* run_debate (background task) and its DebateManager
    pc, agents, round_num, agent_idx, conversation_history, response,
    input_msgs, conclusion_data,
    \* cancel_debate (request thread)
    cancel_pc, cancel_result,
    \* history of the behaviour
    cancel_calls, gen_failures, sink_failures, save_failures, escaped, pushed, reply_log,
    \* the synthesis call: the reply of the model, the text the cascade
    \* works on, the position in generate_structured_output and its return
    llm_reply, text_content, llm_pc, llm_output

vars == <<status, progress, conclusion, rounds, agent_ids, moderator_id,
          messages, start_pc, pc, agents, round_num, agent_idx,
          conversation_history, response, input_msgs, conclusion_data,
          cancel_pc, cancel_result, cancel_calls, gen_failures,
          sink_failures, save_failures, escaped, pushed,
          reply_log, request, llm_reply, text_content, llm_pc, llm_output>>

rowVars == <<status, progress, conclusion, rounds, agent_ids, moderator_id>>
startVars == <<start_pc, request>>
taskVars == <<pc, agents, round_num, agent_idx, conversation_history,
              response, input_msgs, conclusion_data>>
cancelVars == <<cancel_pc, cancel_result, cancel_calls>>
logVars == <<gen_failures, sink_failures, save_failures, escaped, pushed,
             reply_log>>
llmVars == <<llm_reply, text_content, llm_pc, llm_output>>

\* The six conclusion columns are nullable and NULL until run_debate sets them.
NullConclusion ==
    [final_conclusion |-> PyNone, confidence_score |-> PyNone,
     consensus_points |-> PyNone, divergent_views |-> PyNone,
     key_arguments |-> PyNone, preliminary_insights |-> PyNone]

\* Before the synthesis call: no reply and nothing returned.
NoReply == [kind |-> "unset", text |-> <<>>]
NoOutput == [raised |-> FALSE, value |-> PyNone, step |-> "unset"]

\* The session before Start: no row, no thread at work.
InitSession ==
    /\ status = "none"
    /\ progress = Rat(0, 1)
    /\ conclusion = NullConclusion
    /\ rounds = 0
    /\ agent_ids = <<>>
    /\ moderator_id = NoModerator
    /\ messages = <<>>
    /\ start_pc = "idle"
    /\ pc = "idle"
    /\ agents = <<>>
    /\ round_num = 0
    /\ agent_idx = 0
    /\ conversation_history = <<>>
    /\ response = ""
    /\ input_msgs = <<>>
    /\ conclusion_data = NullConclusion
    /\ cancel_pc = "idle"
    /\ cancel_result = "none"
    /\ cancel_calls = 0
    /\ gen_failures = 0
    /\ sink_failures = 0
    /\ save_failures = 0
    /\ escaped = FALSE
    /\ pushed = <<>>
    /\ reply_log = <<>>
    /\ request = [agent_ids |-> <<>>, moderator_id |-> NoModerator,
                  rounds |-> 0]
    /\ text_content = <<>>
    /\ llm_output = NoOutput

Init ==
    /\ InitSession
    /\ llm_reply = NoReply
    /\ llm_pc = "idle"

\* ------------------------------------------------------------ start_debate
\* The environment may still contribute an event.
EventLeft == gen_failures + sink_failures + cancel_calls < MaxEvents

\* A database call that may fail: the failure is drawn while the budget lasts.
SinkMayFail == EventLeft

\* ---- the requests
\* The participant id lists a request can carry, up to MaxAgents entries and
\* the empty list among them. The ids are named in the order of their first
\* appearance: every list is one of these up to the names of its ids.
IdLists ==
    {<<>>} \cup
    UNION {{s \in [1..n -> 1..MaxAgents] :
               /\ s[1] = 1
               /\ \A i \in 2..n : \E j \in 1..(i - 1) : s[i] <= s[j] + 1} :
           n \in 1..MaxAgents}

\* No moderator (the empty string), an agent that is no participant, and the
\* first participant.
ModeratorIds == {NoModerator, ModeratorAgent, 1}
RoundCounts == 0..MaxRounds

\* The fields of a request body that reach the Debate row.
Requests ==
    [agent_ids : IdLists, moderator_id : ModeratorIds, rounds : RoundCounts]
NoRequest == [agent_ids |-> <<>>, moderator_id |-> NoModerator, rounds |-> 0]

Range(s) == {s[i] : i \in 1..Len(s)}

\* The validator with the comparison left out.
validate_agent_ids_unchecked(v) == TRUE

\* @field_validator('agent_ids'): len(v) != len(set(v)) raises ValueError.
validate_agent_ids(v) == Len(v) = Cardinality(Range(v))

\* agent_ids: Field(..., min_length=2, max_length=8) and its validator.
agent_ids_valid(v) ==
    /\ Len(v) >= MinAgents
    /\ Len(v) <= MaxAgentsAllowed
    /\ validate_agent_ids(v)

\* @field_validator('moderator_id'): raises ValueError when agent_ids was
\* validated ('agent_ids' in values.data) and holds the moderator's id.
moderator_is_not_a_debater(req) ==
    ~(agent_ids_valid(req.agent_ids) /\ req.moderator_id \in Range(req.agent_ids))

\* rounds: Field(3, ge=1, le=10)
rounds_valid(r) == r >= 1 /\ r <= MaxRoundsAllowed

\* DebateStartRequest(...): the model validates, or raises ValidationError.
DebateStartRequest(req) ==
    /\ agent_ids_valid(req.agent_ids)
    /\ moderator_is_not_a_debater(req)
    /\ rounds_valid(req.rounds)

\* Debate(status=CREATED, progress=0.0, rounds=..., agent_ids=...,
\* moderator_id=...); db.add; db.commit: the row as start_debate and
\* start_debate_from_dataset create it.
create_debate(req) ==
    /\ agent_ids' = req.agent_ids
    /\ rounds' = req.rounds
    /\ moderator_id' = req.moderator_id
    /\ status' = "created"
    /\ progress' = Rat(0, 1)
    /\ conclusion' = NullConclusion

\* start_debate on a request object, steps 1 and 2; a request that does not
\* validate never becomes an object: ValidationError, nothing is touched.
start_debate(req) ==
    /\ request' = req
    /\ IF DebateStartRequest(req)
       THEN /\ create_debate(req)
            /\ start_pc' = "configure"
       ELSE /\ start_pc' = "rejected"
            /\ UNCHANGED rowVars
    /\ UNCHANGED <<messages, taskVars, cancelVars, logVars, llmVars>>

\* POST /start: the body is validated as a DebateStartRequest (422 when it
\* is not valid), then start_debate runs.
StartCreate ==
    /\ start_pc = "idle"
    /\ \E req \in Requests : start_debate(req)

\* start_debate_from_data: the body is a DebateFromDataSourceRequest, which
\* has no validators. The query or the analyst may fail (HTTP 400 or 500);
\* otherwise a DebateStartRequest is built from the body and start_debate
\* is called.
StartFromData ==
    /\ start_pc = "idle"
    /\ \E req \in Requests :
          \/ start_debate(req)
          \/ /\ request' = req
             /\ start_pc' = "error"
             /\ UNCHANGED <<rowVars, messages, taskVars, cancelVars,
                            logVars, llmVars>>

\* The ids of the k agents create_debate_from_template creates, the first
\* of them being the moderator's.
template_agent_ids(k) ==
    [i \in 1..k |-> IF i = 1 THEN ModeratorAgent ELSE i - 1]

\* create_debate_from_template: the agents of the template are created; the
\* first is the moderator and the others debate. No agent or no debater is
\* HTTP 400; otherwise a DebateStartRequest is built and start_debate is
\* called.
StartFromTemplate ==
    /\ start_pc = "idle"
    /\ \E k \in 0..(MaxAgents + 1), r \in RoundCounts :
          LET ids == template_agent_ids(k) IN
          IF k < 2
          THEN /\ request' = NoRequest
               /\ start_pc' = "rejected"
               /\ UNCHANGED <<rowVars, messages, taskVars, cancelVars,
                              logVars, llmVars>>
          ELSE start_debate([agent_ids |-> Tail(ids),
                             moderator_id |-> ids[1], rounds |-> r])

\* start_debate_from_dataset: the body is a DebateFromDatasetRequest, which
\* has no validators; a Debate row is created from it and returned. No task
\* is started.
StartFromDataset ==
    /\ start_pc = "idle"
    /\ \E req \in Requests :
          /\ request' = req
          /\ create_debate(req)
    /\ start_pc' = "returned"
    /\ UNCHANGED <<messages, taskVars, cancelVars, logVars, llmVars>>

\* start_debate, step 3: configure_agent_for_debate for every agent, each a
\* commit. A failure is caught by the handler's except clause, which raises
\* HTTP 500: the row stays as committed and no task is scheduled.
StartConfigure ==
    /\ start_pc = "configure"
    /\ \/ /\ start_pc' = "set_running"
          /\ UNCHANGED sink_failures
       \/ /\ SinkMayFail
          /\ sink_failures' = sink_failures + 1
          /\ start_pc' = "error"
    /\ UNCHANGED <<request, llmVars, rowVars, messages, taskVars, cancelVars, gen_failures,
                   save_failures, escaped, pushed, reply_log>>

\* update_debate_status: the status column is overwritten, whatever it held.
update_debate_status(s) == status' = s

\* start_debate, step 4: update_debate_status(RUNNING), then the background
\* task is added.
StartSetRunning ==
    /\ start_pc = "set_running"
    /\ update_debate_status("running")
    /\ start_pc' = "returned"
    /\ pc' = "start"
    /\ UNCHANGED <<request, llmVars, progress, conclusion, rounds, agent_ids, moderator_id,
                   messages, agents, round_num, agent_idx,
                   conversation_history, response, input_msgs,
                   conclusion_data, cancelVars, logVars>>

\* -------------------------------------------------------------- run_debate
\* What one call of the generation capability (agent.reply) can do.
ReplyKinds == {"text", "none", "no_content", "raise"}
FailureKinds == ReplyKinds \ {"text"}

\* A generation call: any reply, a failing one while the budget lasts.
Replies == IF EventLeft THEN ReplyKinds ELSE {"text"}

\* The orders in which the agent lookup can return the records of ids:
\* get_agent_by_ids filters with IN and has no ORDER BY.
Orders(ids) ==
    {o \in [1..Len(ids) -> 1..Len(ids)] :
        \A i, j \in 1..Len(ids) : i # j => o[i] # o[j]}

get_agent_by_ids(ids) == {[i \in 1..Len(ids) |-> ids[o[i]]] : o \in Orders(ids)}

\* run_debate, step 1: debate.status = "running"; commit.
RunSetRunning ==
    /\ pc = "start"
    /\ status' = "running"
    /\ pc' = "get_agents"
    /\ UNCHANGED <<llmVars, progress, conclusion, rounds, agent_ids, moderator_id,
                   messages, startVars, agents, round_num, agent_idx,
                   conversation_history, response, input_msgs,
                   conclusion_data, cancelVars, logVars>>

\* run_debate, steps 2 to 4: the agent records are fetched, the agentscope
\* agents and the DebateManager are built (empty conversation_history). A
\* failing query raises into run_debate's except clause.
RunSetup ==
    /\ pc = "get_agents"
    /\ \/ /\ agents' \in get_agent_by_ids(agent_ids)
          /\ conversation_history' = <<>>
          /\ round_num' = 0
          /\ pc' = IF rounds > 0 THEN "progress" ELSE "conclusion"
          /\ UNCHANGED sink_failures
       \/ /\ SinkMayFail
          /\ sink_failures' = sink_failures + 1
          /\ pc' = "handler"
          /\ UNCHANGED <<agents, conversation_history, round_num>>
    /\ UNCHANGED <<llmVars, rowVars, messages, startVars, agent_idx, response,
                   input_msgs, conclusion_data, cancelVars, gen_failures,
                   save_failures, escaped, pushed, reply_log>>

\* The progress counted down, and the progress of the 0-based index.
RoundProgress_descending(rn, total) == Rat((total - rn) * RoundShare, total)
RoundProgress_zero_based(rn, total) == Rat(rn * RoundShare, total)

\* progress = ((round_num + 1) / self.rounds) * 90, round_num the 0-based
\* loop index.
RoundProgress(rn, total) == Rat((rn + 1) * RoundShare, total)

\* update_debate_progress: debate.progress = min(max(progress, 0.0), 100.0)
update_debate_progress(p) ==
    RatMin(RatMax(p, Rat(0, 1)), Rat(FullProgress, 1))

\* run_debate_rounds, top of the loop body: the progress of the round is
\* pushed before any agent of the round speaks. get_debate or the commit may
\* fail, and the exception leaves run_debate_rounds.
RoundBegin ==
    /\ pc = "progress"
    /\ \/ /\ progress' = update_debate_progress(RoundProgress(round_num, rounds))
          /\ pushed' = Append(pushed, RoundProgress(round_num, rounds))
          /\ agent_idx' = 1
          /\ pc' = "turn"
          /\ UNCHANGED sink_failures
       \/ /\ SinkMayFail
          /\ sink_failures' = sink_failures + 1
          /\ pc' = "handler"
          /\ UNCHANGED <<progress, pushed, agent_idx>>
    /\ UNCHANGED <<llmVars, status, conclusion, rounds, agent_ids, moderator_id,
                   messages, startVars, agents, round_num,
                   conversation_history, response, input_msgs,
                   conclusion_data, cancelVars, gen_failures, save_failures,
                   escaped, reply_log>>

\* Msg(name=msg['agent'], role="user", content=msg['response'])
Msg(m) == [name |-> m.agent, role |-> "user", content |-> m.response]

\* The history loop with <= in place of <.
RECURSIVE history_msgs_inclusive(_, _)
history_msgs_inclusive(history, rnd) ==
    IF history = <<>> THEN <<>>
    ELSE IF Head(history).round <= rnd
         THEN <<[name |-> Head(history).agent, role |-> "user",
                 content |-> Head(history).response]>>
              \o history_msgs_inclusive(Tail(history), rnd)
         ELSE history_msgs_inclusive(Tail(history), rnd)

\* get_agent_response, the history loop: the messages of conversation_history
\* with msg['round'] < round_num, in order, each turned into a Msg.
RECURSIVE history_msgs(_, _)
history_msgs(history, rnd) ==
    IF history = <<>> THEN <<>>
    ELSE IF Head(history).round < rnd
         THEN <<Msg(Head(history))>> \o history_msgs(Tail(history), rnd)
         ELSE history_msgs(Tail(history), rnd)

\* The prompt of the current round, a Msg of the system with the topic.
prompt_msg == [name |-> "system", role |-> "system", content |-> "topic"]

\* The normalisation without the try/except around the call.
get_agent_response_uncaught(kind) ==
    CASE kind = "text" -> [raised |-> FALSE, value |-> "text"]
      [] kind = "none" -> [raised |-> FALSE, value |-> "[no response]"]
      [] kind = "no_content" -> [raised |-> FALSE, value |-> "[format error]"]
      [] kind = "raise" -> [raised |-> TRUE, value |-> ""]

\* get_agent_response, from the reply on: the string a reply is normalised
\* to. An exception of the call is caught and becomes the tagged string
\* "[錯誤] 無法獲取響應: ..." (here "[error]"); None becomes "[無響應] ..."
\* ("[no response]"); a Msg without content "[響應格式錯誤] ..."
\* ("[format error]"). Nothing is raised to the caller.
get_agent_response(kind) ==
    CASE kind = "text" -> [raised |-> FALSE, value |-> "text"]
      [] kind = "none" -> [raised |-> FALSE, value |-> "[no response]"]
      [] kind = "no_content" -> [raised |-> FALSE, value |-> "[format error]"]
      [] kind = "raise" -> [raised |-> FALSE, value |-> "[error]"]

\* One participant turn, first half: the context is assembled from the
\* history and the generation capability is called once.
Speak ==
    /\ pc = "turn"
    /\ \E kind \in Replies :
          LET r == get_agent_response(kind) IN
          /\ input_msgs' =
                history_msgs(conversation_history, round_num + 1)
                    \o <<prompt_msg>>
          /\ gen_failures' = gen_failures + (IF kind = "text" THEN 0 ELSE 1)
          /\ IF r.raised
             THEN /\ pc' = "handler"
                  /\ UNCHANGED <<response, reply_log>>
             ELSE /\ pc' = "record"
                  /\ response' = r.value
                  /\ reply_log' = Append(reply_log, kind)
    /\ UNCHANGED <<llmVars, rowVars, messages, startVars, agents, round_num,
                   agent_idx, conversation_history, conclusion_data,
                   cancelVars, sink_failures, save_failures, escaped, pushed>>

\* save_debate_message: the row is added and committed; a failure is caught
\* inside (rollback), nothing is stored and nothing is raised.
save_debate_message(msg, ok) == IF ok THEN Append(messages, msg) ELSE messages

\* The loop over the rounds ending one round early.
AfterRound_one_short ==
    IF round_num + 2 < rounds THEN "progress" ELSE "conclusion"

\* The position after the last speaker of a round: the next round, or the
\* end of run_debate_rounds.
AfterRound == IF round_num + 1 < rounds THEN "progress" ELSE "conclusion"

\* One participant turn, second half: msg_data is appended to
\* conversation_history and saved.
Record ==
    /\ pc = "record"
    /\ LET msg == [agent |-> agents[agent_idx], role |-> "debater",
                   round |-> round_num + 1, response |-> response] IN
       /\ conversation_history' = Append(conversation_history, msg)
       /\ \/ /\ messages' = save_debate_message(msg, TRUE)
             /\ UNCHANGED <<sink_failures, save_failures>>
          \/ /\ SinkMayFail
             /\ messages' = save_debate_message(msg, FALSE)
             /\ sink_failures' = sink_failures + 1
             /\ save_failures' = save_failures + 1
    /\ IF agent_idx < Len(agents)
       THEN /\ agent_idx' = agent_idx + 1
            /\ pc' = "turn"
            /\ UNCHANGED round_num
       ELSE IF moderator_id # NoModerator
            THEN /\ pc' = "moderator"
                 /\ UNCHANGED <<agent_idx, round_num>>
            ELSE /\ pc' = AfterRound
                 /\ round_num' = round_num + 1
                 /\ UNCHANGED agent_idx
    /\ UNCHANGED <<llmVars, rowVars, startVars, agents, response, input_msgs,
                   conclusion_data, cancelVars, gen_failures, escaped, pushed, reply_log>>

\* _get_moderator_summary: the reply is stringified (str(None) is the text
\* "None", a Msg gives str(content)); an exception of the call is caught and
\* becomes "[錯誤] 無法獲取主持人總結: ..." (here "[moderator error]").
get_moderator_summary(kind) ==
    CASE kind = "text" -> [raised |-> FALSE, value |-> "text"]
      [] kind = "none" -> [raised |-> FALSE, value |-> "None"]
      [] kind = "no_content" -> [raised |-> FALSE, value |-> "None"]
      [] kind = "raise" -> [raised |-> FALSE, value |-> "[moderator error]"]

\* The moderator step of a round, first half: the moderator is called.
ModeratorSpeak ==
    /\ pc = "moderator"
    /\ \E kind \in Replies :
          LET r == get_moderator_summary(kind) IN
          /\ gen_failures' = gen_failures + (IF kind = "text" THEN 0 ELSE 1)
          /\ IF r.raised
             THEN /\ pc' = "handler"
                  /\ UNCHANGED <<response, reply_log>>
             ELSE /\ pc' = "record_summary"
                  /\ response' = r.value
                  /\ reply_log' = Append(reply_log, kind)
    /\ UNCHANGED <<llmVars, rowVars, messages, startVars, agents, round_num,
                   agent_idx, conversation_history, input_msgs,
                   conclusion_data, cancelVars, sink_failures, save_failures,
                   escaped, pushed>>

\* The summary tagged with the 0-based loop index.
summary_msg_data_zero_based(summary) ==
    [agent |-> moderator_id, role |-> "moderator", round |-> round_num,
     response |-> summary]

\* The moderator step, second half: summary_msg_data, with role 'moderator'
\* and the round's number, is appended and saved.
summary_msg_data(summary) ==
    [agent |-> moderator_id, role |-> "moderator", round |-> round_num + 1,
     response |-> summary]

ModeratorRecord ==
    /\ pc = "record_summary"
    /\ conversation_history' =
          Append(conversation_history, summary_msg_data(response))
    /\ \/ /\ messages' = save_debate_message(summary_msg_data(response), TRUE)
          /\ UNCHANGED <<sink_failures, save_failures>>
       \/ /\ SinkMayFail
          /\ messages' = save_debate_message(summary_msg_data(response), FALSE)
          /\ sink_failures' = sink_failures + 1
          /\ save_failures' = save_failures + 1
    /\ pc' = AfterRound
    /\ round_num' = round_num + 1
    /\ UNCHANGED <<llmVars, rowVars, startVars, agents, agent_idx, response,
                   input_msgs, conclusion_data, cancelVars, gen_failures,
                   escaped, pushed, reply_log>>


\* ---- the replies drawn
\* The text of a JSON string, of a member and of an object.
StringText(s) == <<Quote>> \o s \o <<Quote>>
MemberText(key, value) == StringText(<<key>>) \o <<":">> \o value

RECURSIVE JoinText(_)
JoinText(parts) ==
    IF Len(parts) = 0 THEN <<>>
    ELSE IF Len(parts) = 1 THEN parts[1]
    ELSE parts[1] \o <<",">> \o JoinText(Tail(parts))

ObjectText(members) == <<"{">> \o JoinText(members) \o <<"}">>

\* The object the prompt asks for, as test_generate_conclusion gives it.
FullObject ==
    ObjectText(<<MemberText("final_conclusion", StringText(<<"w">>)),
                 MemberText("confidence_score", <<"0.9">>),
                 MemberText("consensus_points",
                            <<"[">> \o StringText(<<"w">>) \o <<"]">>),
                 MemberText("divergent_views", <<"[", "]">>),
                 MemberText("key_arguments", <<"{", "}">>),
                 MemberText("preliminary_insights", <<"[", "]">>)>>)

\* A text inside a ```json block, as a model usually sends it.
FencedJson(body) == <<Fence, JsonTag, Newline>> \o body \o <<Newline, Fence>>
FencedObject == FencedJson(FullObject)

\* Objects with keys missing, with null values, with values of another
\* type in the JSON columns and a score outside 0..1, and with a list for
\* the conclusion text.
EmptyObject == <<"{", "}">>
NullObject ==
    ObjectText(<<MemberText("final_conclusion", <<"null">>),
                 MemberText("consensus_points", <<"null">>)>>)
MistypedObject ==
    ObjectText(<<MemberText("final_conclusion", StringText(<<"w">>)),
                 MemberText("confidence_score", <<"9">>),
                 MemberText("consensus_points", StringText(<<"w">>)),
                 MemberText("key_arguments", <<"[", "]">>)>>)
ListConclusionObject ==
    ObjectText(<<MemberText("final_conclusion",
                            <<"[">> \o StringText(<<"w">>) \o <<"]">>)>>)

\* A JSON value that is no object, and prose of two lines.
ArrayText == <<"[">> \o StringText(<<"w">>) \o <<"]">>
ProseText == <<"w", Space, "w", Newline, "w">>

\* The replies to the synthesis call in a session.
WellFormedReply == TextReply(FencedObject)
DegradedReplies ==
    {TextReply(EmptyObject), TextReply(NullObject), TextReply(MistypedObject),
     TextReply(ListConclusionObject), TextReply(ArrayText),
     TextReply(ProseText), RaisingReply}

\* The synthesis call: any reply, one that is not the object asked for
\* while the budget lasts.
SynthesisReplies ==
    IF EventLeft THEN {WellFormedReply} \cup DegradedReplies
    ELSE {WellFormedReply}

\* generate_structured_output and generate_conclusion, tabulated once on
\* the replies a synthesis can draw.
structured_outputs ==
    [reply \in {WellFormedReply} \cup DegradedReplies |->
        generate_structured_output(reply)]
conclusions ==
    [reply \in {WellFormedReply} \cup DegradedReplies |->
        generate_conclusion(reply)]

\* run_debate, step 6: generate_conclusion, with its one call of
\* generate_structured_output. An exception that left generate_conclusion
\* would reach run_debate's except clause.
Conclude ==
    /\ pc = "conclusion"
    /\ \E reply \in SynthesisReplies :
          LET r == conclusions[reply] IN
          /\ llm_reply' = reply
          /\ llm_output' = structured_outputs[reply]
          /\ gen_failures' =
                gen_failures + (IF reply = WellFormedReply THEN 0 ELSE 1)
          /\ IF r.raised
             THEN /\ pc' = "handler"
                  /\ UNCHANGED conclusion_data
             ELSE /\ pc' = "finish"
                  /\ conclusion_data' = r.value
    /\ UNCHANGED <<rowVars, messages, startVars, agents, round_num,
                   agent_idx, conversation_history, response, input_msgs,
                   cancelVars, sink_failures, save_failures, escaped, pushed,
                   reply_log, text_content, llm_pc>>

\* Step 7 without the assignment of the status.
run_debate_result_keeps_status(data) ==
    [status |-> status, progress |-> Rat(FullProgress, 1),
     conclusion |-> data]

\* run_debate, step 7: what is assigned to the row after the conclusion.
run_debate_result(data) ==
    [status |-> "completed", progress |-> Rat(FullProgress, 1),
     conclusion |-> data]

\* final_conclusion is a Text column and confidence_score a Float column:
\* the driver binds a str, a number or None, and raises on a list or a
\* dict. The other four are JSON columns, which serialise any value
\* json.loads gave.
Bindable(data) ==
    /\ data.final_conclusion.type \in {"str", "float", "NoneType"}
    /\ data.confidence_score.type \in {"str", "float", "NoneType"}

\* run_debate, step 7: status "completed", progress 100.0 and the six
\* conclusion columns are assigned and committed together. A failing commit
\* (a value the driver cannot bind, or a failure of the database) writes
\* nothing and raises into the except clause.
Finish ==
    /\ pc = "finish"
    /\ \/ /\ Bindable(conclusion_data)
          /\ status' = run_debate_result(conclusion_data).status
          /\ progress' = run_debate_result(conclusion_data).progress
          /\ conclusion' = run_debate_result(conclusion_data).conclusion
          /\ pc' = "done"
          /\ UNCHANGED sink_failures
       \/ /\ ~Bindable(conclusion_data)
          /\ sink_failures' = sink_failures + 1
          /\ pc' = "handler"
          /\ UNCHANGED <<status, progress, conclusion>>
       \/ /\ SinkMayFail
          /\ sink_failures' = sink_failures + 1
          /\ pc' = "handler"
          /\ UNCHANGED <<status, progress, conclusion>>
    /\ UNCHANGED <<llmVars, rounds, agent_ids, moderator_id, messages, startVars,
                   agents, round_num, agent_idx, conversation_history,
                   response, input_msgs, conclusion_data, cancelVars,
                   gen_failures, save_failures, escaped, pushed, reply_log>>

\* run_debate, except clause: debate.status = "failed"; commit.
Handler ==
    /\ pc = "handler"
    /\ status' = "failed"
    /\ escaped' = TRUE
    /\ pc' = "done"
    /\ UNCHANGED <<llmVars, progress, conclusion, rounds, agent_ids, moderator_id,
                   messages, startVars, agents, round_num, agent_idx,
                   conversation_history, response, input_msgs,
                   conclusion_data, cancelVars, gen_failures, sink_failures,
                   save_failures, pushed, reply_log>>

\* ----------------------------------------------------------- cancel_debate
\* The guard with COMPLETED left out of the list.
CancelRejected_without_completed(s) == s \in {"failed", "expired"}

\* cancel_debate, the guard: a status in COMPLETED, FAILED, EXPIRED is
\* rejected with HTTP 400 before anything is assigned.
CancelRejected(s) == s \in {"completed", "failed", "expired"}

\* cancel_debate, first half: get_debate reads the row and the guard decides.
\* The caller names the session by the id that Start's response carried (no
\* route lists the sessions), so Start has returned.
CancelCheck ==
    /\ cancel_pc = "idle"
    /\ start_pc = "returned"
    /\ EventLeft
    /\ cancel_calls' = cancel_calls + 1
    /\ IF CancelRejected(status)
       THEN /\ cancel_result' = "error"
            /\ cancel_pc' = "idle"
       ELSE /\ cancel_result' = "none"
            /\ cancel_pc' = "commit"
    /\ UNCHANGED <<llmVars, rowVars, messages, startVars, taskVars, logVars>>

\* cancel_debate, second half: debate.status = FAILED; commit; the row is
\* returned.
CancelCommit ==
    /\ cancel_pc = "commit"
    /\ status' = "failed"
    /\ cancel_result' = "ok"
    /\ cancel_pc' = "idle"
    /\ UNCHANGED <<llmVars, progress, conclusion, rounds, agent_ids, moderator_id,
                   messages, startVars, taskVars, cancel_calls, logVars>>

\* ------------------------------- generate_structured_output, step by step
\* The texts the steps are run on: a body between two paddings of at most
\* MaxPad tokens together.
PadAlphabet == {Space, Newline, Return, Bom, Fence, JsonTag, Quote, "w"}
Pads(n) == UNION {[1..m -> PadAlphabet] : m \in 0..n}

\* An object of one line, one with a line break inside a string, one laid
\* out on several lines, and one written with typographic quotes.
SmallObject == ObjectText(<<MemberText("final_conclusion", StringText(<<"w">>))>>)
BrokenStringObject ==
    ObjectText(<<MemberText("final_conclusion",
                            StringText(<<"w", Newline, "w">>))>>)
PrettyObject ==
    <<"{", Newline, Space>>
        \o MemberText("final_conclusion", StringText(<<"w">>))
        \o <<Newline, "}">>
CurlyQuotedObject ==
    <<"{", LeftQuote, "final_conclusion", RightQuote, ":",
      LeftQuote, "w", RightQuote, "}">>

\* An object whose string has a line break of two characters followed by
\* an indent, and one whose string quotes a piece of code between fences.
CrlfStringObject ==
    ObjectText(<<MemberText("final_conclusion",
                            StringText(<<"w", Return, Newline, Space, "w">>))>>)
FenceInStringObject ==
    ObjectText(<<MemberText("final_conclusion",
                            StringText(<<Fence, "w", Fence>>))>>)

CascadeBodies ==
    {<<>>, <<"w">>, <<"0.9">>, ArrayText, SmallObject, FullObject,
     BrokenStringObject, PrettyObject, CurlyQuotedObject, CrlfStringObject,
     FenceInStringObject, FencedObject, FencedJson(FenceInStringObject),
     FencedJson(BrokenStringObject)}

CascadeTexts ==
    UNION {{pre \o body \o post : post \in Pads(MaxPad - Len(pre))} :
              pre \in Pads(MaxPad), body \in CascadeBodies}

CascadeReplies ==
    {TextReply(t) : t \in CascadeTexts} \cup {NoneReply, RaisingReply}

\* Line 124: response = await model(messages); an exception leaves through
\* the outer except clause as an HTTPException.
ModelCall ==
    /\ llm_pc = "call"
    /\ IF llm_reply.kind = "raise"
       THEN /\ llm_output' = RaisedHTTPException
            /\ llm_pc' = "returned"
            /\ UNCHANGED text_content
       ELSE /\ text_content' = response_text(llm_reply)
            /\ llm_pc' = "code_block"
            /\ UNCHANGED llm_output
    /\ UNCHANGED <<rowVars, messages, startVars, taskVars, cancelVars,
                   logVars, llm_reply>>

\* Lines 184-197.
RemoveCodeBlock ==
    /\ llm_pc = "code_block"
    /\ text_content' = remove_code_block(text_content)
    /\ llm_pc' = "loads"
    /\ UNCHANGED <<rowVars, messages, startVars, taskVars, cancelVars,
                   logVars, llm_reply, llm_output>>

\* One attempt of the cascade: the text is repaired, json.loads is called;
\* its value is returned, or the next attempt follows.
Attempt(here, repaired, name, next) ==
    /\ llm_pc = here
    /\ text_content' = repaired
    /\ IF json_loads(repaired).ok
       THEN /\ llm_output' = Returned(json_loads(repaired).value, name)
            /\ llm_pc' = "returned"
       ELSE IF next = "fallback"
       THEN /\ llm_output' = Returned(fallback_output(repaired), "fallback")
            /\ llm_pc' = "returned"
       ELSE /\ llm_pc' = next
            /\ UNCHANGED llm_output
    /\ UNCHANGED <<rowVars, messages, startVars, taskVars, cancelVars,
                   logVars, llm_reply>>

\* Lines 200-201, 204-216, 218-221 and 223-232.
LoadsDirect == Attempt("loads", text_content, "direct", "repair_bom")
LoadsRepairedBom ==
    Attempt("repair_bom", repair_bom(text_content), "bom", "repair_quotes")
LoadsRepairedQuotes ==
    Attempt("repair_quotes", repair_quotes(text_content), "quotes",
            "repair_newlines")
LoadsRepairedNewlines ==
    Attempt("repair_newlines", repair_newlines(text_content), "newlines",
            "fallback")

\* generate_conclusion, lines 233-253, on what was returned.
ReturnConclusion ==
    /\ llm_pc = "returned"
    /\ conclusion_data' = conclusion_of_output(llm_output).value
    /\ llm_pc' = "concluded"
    /\ UNCHANGED <<rowVars, messages, startVars, pc, agents, round_num,
                   agent_idx, conversation_history, response, input_msgs,
                   cancelVars, logVars, llm_reply, text_content, llm_output>>

CascadeStep ==
    \/ ModelCall
    \/ RemoveCodeBlock
    \/ LoadsDirect
    \/ LoadsRepairedBom
    \/ LoadsRepairedQuotes
    \/ LoadsRepairedNewlines
    \/ ReturnConclusion

\* ------------------------------------------------------------ the system
TaskStep ==
    \/ RunSetRunning
    \/ RunSetup
    \/ RoundBegin
    \/ Speak
    \/ Record
    \/ ModeratorSpeak
    \/ ModeratorRecord
    \/ Conclude
    \/ Finish
    \/ Handler

Next ==
    \/ StartCreate
    \/ StartFromData
    \/ StartFromTemplate
    \/ StartFromDataset
    \/ StartConfigure
    \/ StartSetRunning
    \/ TaskStep
    \/ CancelCheck
    \/ CancelCommit

Spec == Init /\ [][Next]_vars

\* The background task is a coroutine run to its end by asyncio.run in a
\* worker thread, and a request handler that has read the row goes on to its
\* commit: neither waits for the other.
FairSpec == Spec /\ WF_vars(TaskStep) /\ WF_vars(CancelCommit)

\* generate_structured_output and generate_conclusion on their own: the
\* reply is drawn first, then the steps run.
CascadeInit ==
    /\ InitSession
    /\ llm_reply \in CascadeReplies
    /\ llm_pc = "call"

CascadeSpec == CascadeInit /\ [][CascadeStep]_vars

\* The steps return what the function in one piece returns.
CascadeAgrees ==
    /\ llm_pc = "returned" => llm_output = generate_structured_output(llm_reply)
    /\ llm_pc = "concluded" =>
          conclusion_data = generate_conclusion(llm_reply).value

\* ---------------------------------------------------------- get_debate_status
\* current_round of a response: None, or a round number.
NoCurrentRound == [some |-> FALSE, round |-> 0]

\* The response with the round counted without the + 1.
get_debate_status_no_increment ==
    [status |-> status,
     current_round |->
        IF status = "running" /\ progress.n > 0
        THEN [some |-> TRUE,
              round |-> (progress.n * rounds) \div (progress.d * 100)]
        ELSE NoCurrentRound,
     total_rounds |-> rounds]

\* get_debate_status reads the row: current_round is
\* int((progress / 100) * rounds) + 1 for a running session with
\* progress > 0, else None. progress is never negative, so int() is the
\* floor.
get_debate_status ==
    [status |-> status,
     current_round |->
        IF status = "running" /\ progress.n > 0
        THEN [some |-> TRUE,
              round |-> (progress.n * rounds) \div (progress.d * 100) + 1]
        ELSE NoCurrentRound,
     total_rounds |-> rounds]

\* A session that run_debate has set up, with any number of rounds a
\* DebateStartRequest allows, MinAgents participants and a moderator or
\* none: the state before the first round.
RunningInit ==
    /\ status = "running"
    /\ progress = Rat(0, 1)
    /\ conclusion = NullConclusion
    /\ rounds \in 1..MaxRoundsAllowed
    /\ agent_ids = [i \in 1..MinAgents |-> i]
    /\ moderator_id \in {NoModerator, ModeratorAgent}
    /\ request = [agent_ids |-> agent_ids, moderator_id |-> moderator_id,
                  rounds |-> rounds]
    /\ messages = <<>>
    /\ start_pc = "returned"
    /\ pc = "progress"
    /\ agents \in get_agent_by_ids(agent_ids)
    /\ round_num = 0
    /\ agent_idx = 0
    /\ conversation_history = <<>>
    /\ response = ""
    /\ input_msgs = <<>>
    /\ conclusion_data = NullConclusion
    /\ cancel_pc = "idle"
    /\ cancel_result = "none"
    /\ cancel_calls = 0
    /\ gen_failures = 0
    /\ sink_failures = 0
    /\ save_failures = 0
    /\ escaped = FALSE
    /\ pushed = <<>>
    /\ reply_log = <<>>
    /\ llm_reply = NoReply
    /\ text_content = <<>>
    /\ llm_pc = "idle"
    /\ llm_output = NoOutput

\* run_debate_rounds, one step.
RoundStep ==
    \/ RoundBegin
    \/ Speak
    \/ Record
    \/ ModeratorSpeak
    \/ ModeratorRecord

\* run_debate_rounds on its own, for every number of rounds.
RoundsSpec == RunningInit /\ [][RoundStep]_vars

\* ------------------------------------------------------ FinancialDebateManager
\* _assign_round_topics: three sub-topics for 3 rounds or more, two for 2
\* rounds, one otherwise. The names stand for the Chinese titles.
assign_round_topics(r) ==
    IF r >= 3 THEN <<"macro and monetary policy",
                     "asset classes and opportunities",
                     "risk factors and allocation advice">>
    ELSE IF r = 2 THEN <<"macro and market environment",
                         "investment strategy and allocation advice">>
    ELSE <<"market outlook and investment strategy">>

\* The role keywords that the first matching branch of _get_speaking_order
\* looks for in an agent's role, for each sub-topic.
topic_keywords(topic) ==
    CASE topic \in {"macro and monetary policy",
                    "macro and market environment"} -> {"macro"}
      [] topic \in {"asset classes and opportunities",
                    "investment strategy and allocation advice",
                    "market outlook and investment strategy"}
            -> {"investment strategy", "equity strategy"}
      [] topic = "risk factors and allocation advice" -> {"risk"}

\* getattr(agent, 'role', agent.name) of the agents of the session.
agent_role(a) ==
    CASE a = 1 -> "risk"
      [] a = 2 -> "macro"
      [] OTHER -> "investment strategy"

\* _get_speaking_order: a copy of self.agents, sorted (stably) with key 0
\* for the agents whose role has the keyword and 1 for the others.
get_speaking_order(list, topic) ==
    SelectSeq(list, LAMBDA a : agent_role(a) \in topic_keywords(topic))
        \o SelectSeq(list, LAMBDA a : agent_role(a) \notin topic_keywords(topic))

\* run_debate_rounds, top of the loop body: the progress of the round is
\* pushed, then current_topic = round_topics[round_num], which raises
\* IndexError when the list is shorter; the exception leaves the method.
FinancialRoundBegin ==
    /\ pc = "progress"
    /\ \/ /\ progress' = update_debate_progress(RoundProgress(round_num, rounds))
          /\ pushed' = Append(pushed, RoundProgress(round_num, rounds))
          /\ agent_idx' = 1
          /\ pc' = IF round_num + 1 <= Len(assign_round_topics(rounds))
                   THEN "turn" ELSE "handler"
          /\ UNCHANGED sink_failures
       \/ /\ SinkMayFail
          /\ sink_failures' = sink_failures + 1
          /\ pc' = "handler"
          /\ UNCHANGED <<progress, pushed, agent_idx>>
    /\ UNCHANGED <<llmVars, status, conclusion, rounds, agent_ids, moderator_id,
                   messages, startVars, agents, round_num,
                   conversation_history, response, input_msgs,
                   conclusion_data, cancelVars, gen_failures, save_failures,
                   escaped, reply_log>>

\* One turn of the inner loop: the agent at agent_idx of the speaking order
\* is called, its message is appended to the history and saved; after the
\* last agent of the order the next round follows.
FinancialTurn ==
    /\ pc = "turn"
    /\ \E kind \in Replies :
       LET order ==
              get_speaking_order(agents, assign_round_topics(rounds)[round_num + 1])
           msg == [agent |-> order[agent_idx], role |-> "debater",
                   round |-> round_num + 1,
                   response |-> get_agent_response(kind).value]
       IN
       /\ response' = msg.response
       /\ reply_log' = Append(reply_log, kind)
       /\ gen_failures' = gen_failures + (IF kind = "text" THEN 0 ELSE 1)
       /\ conversation_history' = Append(conversation_history, msg)
       /\ \/ /\ messages' = save_debate_message(msg, TRUE)
             /\ UNCHANGED <<sink_failures, save_failures>>
          \/ /\ gen_failures' + sink_failures + cancel_calls < MaxEvents
             /\ messages' = save_debate_message(msg, FALSE)
             /\ sink_failures' = sink_failures + 1
             /\ save_failures' = save_failures + 1
       /\ IF agent_idx < Len(order)
          THEN /\ agent_idx' = agent_idx + 1
               /\ pc' = "turn"
               /\ UNCHANGED round_num
          ELSE /\ pc' = AfterRound
               /\ round_num' = round_num + 1
               /\ UNCHANGED agent_idx
    /\ UNCHANGED <<llmVars, rowVars, startVars, agents, input_msgs,
                   conclusion_data, cancelVars, escaped, pushed>>

FinancialStep ==
    \/ FinancialRoundBegin
    \/ FinancialTurn

\* FinancialDebateManager.run_debate_rounds on its own, for every number of
\* rounds.
FinancialSpec == RunningInit /\ [][FinancialStep]_vars

\* ================================================================ properties
\* The participants of the session and the messages one round appends.
NumAgents == Len(agent_ids)
PerRound == NumAgents + (IF moderator_id = NoModerator THEN 0 ELSE 1)

\* run_debate_rounds has returned to run_debate.
RoundsReturned == pc \in {"conclusion", "finish"}

\* No Cancel was requested, and no exception left start_debate or reached
\* run_debate's except clause.
NeverCancelled == cancel_calls = 0
NothingEscaped == start_pc # "error" /\ pc # "handler" /\ ~escaped

\* A content that carries one of get_agent_response's error tags.
ErrorTagged(content) ==
    content \in {"[error]", "[no response]", "[format error]"}

\* C1: once the persisted status is Completed, Failed or Expired, no later
\* step of any thread changes it.
C1_TerminalStatusIsFinal ==
    [][(status \in Terminal) => (status' = status)]_vars

C3_ContextIsEarlierRounds ==
    (pc = "record" /\ round_num + 1 > 1) =>
        LET R == round_num + 1
            H == conversation_history
            K == Cardinality({i \in DOMAIN H : H[i].round < R})
        IN /\ Len(input_msgs) = K + 1
           /\ K = (R - 1) * PerRound
           /\ \A i \in 1..K :
                 /\ H[i].round < R
                 /\ input_msgs[i].name = H[i].agent
                 /\ input_msgs[i].content = H[i].response
           /\ \A i \in (K + 1)..Len(H) : H[i].round = R
           /\ Len(H) = K + agent_idx - 1

C3_Witness ==
    /\ pc = "record"
    /\ round_num + 1 = 3
    /\ agent_idx = 2
    /\ moderator_id # NoModerator
    /\ agents # agent_ids

\* C4, the turns: every participant turn whose generation call failed
\* (raised, returned None or a reply without content) has an error-tagged
\* message in the history.
C4_TurnsOfTask ==
    \A i \in DOMAIN conversation_history :
        (conversation_history[i].role = "debater"
            /\ reply_log[i] \in FailureKinds)
        => ErrorTagged(conversation_history[i].response)

\* C4, the end: when no database call failed and no Cancel was requested, the
\* finished task has recorded every turn of every round and the status is
\* Completed, not Failed.
C4_EndOfTask ==
    (pc = "done" /\ sink_failures = 0 /\ NeverCancelled) =>
        /\ status = "completed"
        /\ ~escaped
        /\ Len(conversation_history) = rounds * PerRound

TurnsOf(seq, a, r) ==
    {i \in DOMAIN seq : seq[i].agent = a /\ seq[i].round = r}

RoundOf(i) == ((i - 1) \div PerRound) + 1
PlaceOf(i) == ((i - 1) % PerRound) + 1

\* seq is a run of whole rounds, each N participant messages followed by one
\* message of the moderator with role 'moderator', all carrying the round's
\* number.
ModeratedRounds(seq) ==
    \A i \in DOMAIN seq :
        /\ seq[i].round = RoundOf(i)
        /\ (seq[i].role = "moderator") <=> (PlaceOf(i) = NumAgents + 1)
        /\ (seq[i].agent = moderator_id) <=> (PlaceOf(i) = NumAgents + 1)

HappyPath ==
    {<<"none", "created">>, <<"created", "running">>,
     <<"running", "completed">>}

\* C7: as long as no Cancel is requested and no exception escapes, the
\* persisted status changes only from nothing to Created, from Created to
\* Running and from Running to Completed, and the finished task leaves it
\* Completed.
C7_StatusSequence ==
    /\ [][(NeverCancelled' /\ NothingEscaped')
             => (status' = status \/ <<status, status'>> \in HappyPath)]_vars
    /\ []((pc = "done" /\ NeverCancelled /\ NothingEscaped)
             => status = "completed")

C7_Witness ==
    /\ pc = "done"
    /\ status = "completed"
    /\ NeverCancelled
    /\ NothingEscaped

\* C8: no step lowers the persisted progress.
C8_ProgressNeverDecreases == [][RatLE(progress, progress')]_vars

C8_Witness ==
    /\ status = "completed"
    /\ Len(pushed) = 3
    /\ RatEq(progress, Rat(FullProgress, 1))

\* C9: in every state, the persisted progress is 100 only if the persisted
\* status is Completed.
C9_FullProgressOnlyIfCompleted ==
    RatEq(progress, Rat(FullProgress, 1)) => status = "completed"

\* C10: the k-th progress value pushed is (k / R) x 90, each is what the row
\* then holds, R of them have been pushed when run_debate_rounds returns,
\* and a Completed session has progress 100.
C10_ProgressValues ==
    /\ \A k \in DOMAIN pushed : RatEq(pushed[k], Rat(k * 90, rounds))
    /\ Len(pushed) <= rounds
    /\ pc \in {"turn", "record", "moderator", "record_summary"} =>
          /\ Len(pushed) = round_num + 1
          /\ RatEq(progress, pushed[Len(pushed)])
    /\ RoundsReturned => Len(pushed) = rounds
    /\ status = "completed" => RatEq(progress, Rat(100, 1))

C10_Witness ==
    /\ status = "completed"
    /\ rounds = 3
    /\ Len(pushed) = 3
    /\ pushed[1].n = 30 * pushed[1].d
    /\ pushed[2].n = 60 * pushed[2].d
    /\ pushed[3].n = 90 * pushed[3].d

\* A score inside 0..1.
ScoreInRange(v) == v.type = "float" /\ v.val \in {<<"0.0">>, <<"0.9">>}

\* The six fields with the types of a ConclusionResult.
TypeCorrect(c) ==
    /\ c.final_conclusion.type = "str"
    /\ ScoreInRange(c.confidence_score)
    /\ c.consensus_points.type = "list"
    /\ c.divergent_views.type = "list"
    /\ c.preliminary_insights.type = "list"
    /\ c.key_arguments.type = "dict"

\* C11: whatever the synthesis reply was, a session with status Completed
\* has all six conclusion fields present, not null and of their types: a
\* string, a number in 0..1, three lists and a mapping.
C11_ConclusionTypeCorrect == status = "completed" => TypeCorrect(conclusion)

\* The conclusion columns that hold a value.
SetFields(c) == {f \in DOMAIN c : c[f].type # "NoneType"}

\* C12: in every state, a Completed session has all six conclusion fields
\* set and a Failed session has none of them set.
C12_ConclusionIffCompleted ==
    /\ status = "completed" => SetFields(conclusion) = DOMAIN conclusion
    /\ status = "failed" => SetFields(conclusion) = {}

\* A call of the persistence sink fails inside run_debate_rounds:
\* update_debate_progress at the top of a round or save_debate_message
\* after a reply.
SinkFailsInRounds ==
    /\ sink_failures' = sink_failures + 1
    /\ pc \in {"progress", "record", "record_summary"}

\* C13: a failing sink call during the rounds takes the task to run_debate's
\* except clause, from where its only step sets the status Failed and ends
\* the task: no further turn, no synthesis.
C13_SinkFailureFailsSession ==
    /\ [][SinkFailsInRounds => pc' = "handler"]_vars
    /\ [][(pc = "handler" /\ pc' # "handler")
             => (pc' = "done" /\ status' = "failed"
                 /\ reply_log' = reply_log /\ llm_reply' = llm_reply)]_vars

\* The list names an id twice.
HasDuplicate(ids) == \E i, j \in 1..Len(ids) : i # j /\ ids[i] = ids[j]

\* C14: a Start whose participant list holds a duplicate, or whose
\* moderator_id is one of the participant ids, ends with a validation error
\* and leaves no session row.
C14_InvalidStartRejected ==
    [][(StartCreate /\ (HasDuplicate(request'.agent_ids)
                        \/ request'.moderator_id \in Range(request'.agent_ids)))
          => /\ start_pc' = "rejected"
             /\ status' = "none"
             /\ rowVars' = rowVars
             /\ messages' = messages]_vars

C14_Witness ==
    /\ start_pc = "rejected"
    /\ status = "none"
    /\ request.agent_ids = <<1, 2>>
    /\ request.moderator_id = 1
    /\ request.rounds = 3

\* C15: every persisted session has a participant list without duplicates
\* and with at least 2 entries, and a moderator that is not in the list.
C15_PersistedParticipantsValid ==
    status # "none" =>
        /\ ~HasDuplicate(agent_ids)
        /\ Len(agent_ids) >= MinAgents
        /\ moderator_id \notin Range(agent_ids)

\* C16: once a Cancel has committed, the task starts no further turn: no
\* participant and no moderator is called, and the synthesis is not run.
C16_CancelStopsTheTask ==
    [][cancel_result = "ok" => ~(Speak \/ ModeratorSpeak \/ Conclude)]_vars

\* C17: in the history, the participant message at place k of a round is of
\* the k-th id of the configured list, whatever order the lookup returned;
\* so it is among the persisted messages when no save failed.
C17_ConfiguredOrder ==
    /\ \A i \in DOMAIN conversation_history :
          conversation_history[i].role = "debater" =>
              conversation_history[i].agent = agent_ids[PlaceOf(i)]
    /\ save_failures = 0 =>
          \A i \in DOMAIN messages :
              messages[i].role = "debater" =>
                  messages[i].agent = agent_ids[PlaceOf(i)]

\* Every participant, and the moderator when there is one, has a message of
\* round r in seq.
RoundComplete(seq, r) ==
    /\ \A k \in 1..NumAgents : TurnsOf(seq, agent_ids[k], r) # {}
    /\ moderator_id # NoModerator => TurnsOf(seq, moderator_id, r) # {}

\* C18: when a participant of round r + 1 has been called, every earlier
\* round is complete in the history and among the persisted messages, and
\* the rounds of the history never decrease.
C18_RoundsInOrder ==
    /\ pc = "record" =>
          \A r \in 1..round_num :
              /\ RoundComplete(conversation_history, r)
              /\ RoundComplete(messages, r)
    /\ \A i, j \in DOMAIN conversation_history :
          i < j => conversation_history[i].round <= conversation_history[j].round

\* The synthesis failed: the call raised, no attempt parsed the reply, or
\* the reply parsed to a value that is no object.
SynthesisFailed ==
    \/ llm_output.raised
    \/ llm_output.step = "fallback"
    \/ (llm_output.step # "unset" /\ llm_output.value.type # "dict")

\* C19: generate_conclusion raises nothing (the task goes on to step 7
\* after every reply); after a failed synthesis its result has the six
\* fields with their types; and a session whose only trouble was the
\* failed synthesis ends Completed.
C19_SynthesisNeverRaises ==
    /\ [][llm_reply' # llm_reply => pc' = "finish"]_vars
    /\ []((pc = "finish" /\ SynthesisFailed) => TypeCorrect(conclusion_data))
    /\ []((pc = "done" /\ SynthesisFailed /\ sink_failures = 0
           /\ NeverCancelled) => status = "completed")

C19_Witness ==
    /\ pc = "done"
    /\ status = "completed"
    /\ llm_reply = RaisingReply
    /\ conclusion = DegradedConclusion

\* A text of words and white space only that begins and ends with a word.
IsProse(t) ==
    /\ Len(t) > 0
    /\ \A i \in 1..Len(t) : t[i] \in {"w"} \cup Whitespace
    /\ t[1] = "w"
    /\ t[Len(t)] = "w"

\* C20: for a reply of plain prose every attempt fails, and the result has
\* the prose itself, unchanged, for final_conclusion, the score 0.0, the
\* three lists empty and key_arguments empty.
C20_ProseBecomesConclusion ==
    (llm_pc = "concluded" /\ llm_reply.kind = "str" /\ IsProse(llm_reply.text))
        => /\ llm_output.step = "fallback"
           /\ conclusion_data.final_conclusion = PyStr(llm_reply.text)
           /\ conclusion_data.confidence_score = ZeroScore
           /\ conclusion_data.consensus_points = PyList(<<>>)
           /\ conclusion_data.divergent_views = PyList(<<>>)
           /\ conclusion_data.preliminary_insights = PyList(<<>>)
           /\ conclusion_data.key_arguments = PyDict(<<>>)

\* C23: a progress value is pushed for round k only after every participant
\* of round k has spoken and its message is in the history and, when no
\* save failed, among the persisted messages.
C23_ProgressAfterRound ==
    \A k \in 1..Len(pushed) :
        \A a \in 1..NumAgents :
            /\ TurnsOf(conversation_history, agent_ids[a], k) # {}
            /\ save_failures = 0 => TurnsOf(messages, agent_ids[a], k) # {}

\* C24: the persisted messages are the in-memory history: as many, in the
\* same order, with the same speaker, role, round and content. Both are
\* written in one step of the task, so every state is a turn boundary.
C24_MessagesMirrorHistory == messages = conversation_history

\* A placeholder of bounded length: a fixed text, or a tag followed by the
\* exception text cut to 500 characters as get_agent_response cuts it.
BoundedPlaceholder(content) ==
    content \in {"[error]", "[no response]", "[format error]"}

\* C25: a moderator call that failed leaves a tagged placeholder of bounded
\* length as the moderator message of its round, and when the rounds have
\* run every round has exactly one moderator message, in the history and,
\* when no save failed, among the persisted messages.
C25_ModeratorFailureContained ==
    /\ \A i \in DOMAIN conversation_history :
          (conversation_history[i].role = "moderator"
              /\ reply_log[i] \in FailureKinds)
          => BoundedPlaceholder(conversation_history[i].response)
    /\ (RoundsReturned /\ moderator_id # NoModerator) =>
          \A r \in 1..rounds :
              /\ Cardinality(TurnsOf(conversation_history, moderator_id, r)) = 1
              /\ save_failures = 0 =>
                    Cardinality(TurnsOf(messages, moderator_id, r)) = 1

\* C28: a row that start_debate has committed in Created is not left
\* behind: start_debate does not end in its except clause, with no task
\* added, while the row is still Created.
C28_CreatedReachesRunning == start_pc = "error" => status # "created"

\* The six fields of a ConclusionResult, as keys of the parsed object.
ConclusionKeys ==
    {"final_conclusion", "confidence_score", "consensus_points",
     "divergent_views", "key_arguments", "preliminary_insights"}

\* Every field of the result that the object gives has the value the
\* object gives.
FieldsAsGiven(object) ==
    /\ json_loads(object).ok
    /\ \A f \in ConclusionKeys :
          (\E i \in DOMAIN json_loads(object).value.val :
               json_loads(object).value.val[i].k = <<f>>)
          => conclusion_data[f] =
                dict_get(json_loads(object).value.val, <<f>>, PyNone)

\* C21: a reply that is a ```json block around a JSON object is parsed by
\* the first attempt on the content of the block, and the fields of the
\* result are the values of the object.
C21_FencedJsonParsed ==
    \A object \in {FullObject, FenceInStringObject} :
        (llm_pc = "concluded" /\ llm_reply = TextReply(FencedJson(object)))
            => /\ llm_output.step = "direct"
               /\ FieldsAsGiven(object)

\* An object with a raw line break inside a string value.
BrokenStringObjects == {BrokenStringObject, CrlfStringObject}

\* C22: an object with raw line breaks inside a string value fails the
\* attempts before the newline repair and is parsed after it: the line
\* break is one space in the value, and the result is not the fallback.
C22_NewlinesRepaired ==
    (llm_pc = "concluded" /\ llm_reply.kind = "str"
        /\ strip(llm_reply.text) \in BrokenStringObjects)
    => /\ llm_output.step = "newlines"
       /\ conclusion_data.final_conclusion = PyStr(<<"w", Space, "w">>)

C22_Witness ==
    /\ llm_pc = "concluded"
    /\ llm_reply = TextReply(<<Newline>> \o CrlfStringObject)
    /\ llm_output.step = "newlines"
    /\ conclusion_data.final_conclusion = PyStr(<<"w", Space, "w">>)

\* C26: a reply that as a whole, trimmed, is a JSON object, and that holds
\* a code fence whose content is no JSON, is parsed as the whole text: the
\* value returned is the object.
C26_RawTextAfterFence ==
    (/\ llm_pc = "concluded"
     /\ llm_reply.kind = "str"
     /\ json_loads(strip(llm_reply.text)).ok
     /\ json_loads(strip(llm_reply.text)).value.type = "dict"
     /\ re_search_code_block(llm_reply.text, FALSE).found
     /\ ~json_loads(strip(re_search_code_block(llm_reply.text, FALSE).group)).ok)
    => /\ llm_output.value = json_loads(strip(llm_reply.text)).value
       /\ FieldsAsGiven(strip(llm_reply.text))

\* C27: an object written with typographic quotes is parsed after the
\* repair of the quotes, and the result has the values of the object.
C27_CurlyQuotesRepaired ==
    (llm_pc = "concluded" /\ llm_reply.kind = "str"
        /\ strip(llm_reply.text) = CurlyQuotedObject)
    => /\ llm_output.step = "quotes"
       /\ conclusion_data.final_conclusion = PyStr(<<"w">>)

\* C29: for every number of rounds 1..10, a sub-topic exists for every
\* round that begins, so no round ends in an exception while the database
\* works; the speaking order of every round is a permutation of the
\* participants; and when the rounds have run, every participant has
\* exactly one message per round and the history has N x R messages.
C29_FinancialRoundsRun ==
    /\ (pc = "progress") => round_num + 1 <= Len(assign_round_topics(rounds))
    /\ (sink_failures = save_failures) => pc # "handler"
    /\ \A k \in 1..Len(assign_round_topics(rounds)) :
          LET order == get_speaking_order(agents, assign_round_topics(rounds)[k])
          IN  Len(order) = Len(agents) /\ Range(order) = Range(agents)
    /\ (pc = "conclusion") =>
          /\ Len(conversation_history) = NumAgents * rounds
          /\ \A r \in 1..rounds : \A a \in 1..NumAgents :
                Cardinality(TurnsOf(conversation_history, agent_ids[a], r)) = 1

\* C30: for a running session of 1..10 rounds, get_debate_status reports
\* no current round before the first progress push, and after the push of
\* round k it reports k, a round within 1..rounds.
C30_CurrentRound ==
    (status = "running" /\ rounds \in 1..MaxRoundsAllowed) =>
        IF pushed = <<>>
        THEN get_debate_status.current_round = NoCurrentRound
        ELSE /\ RatEq(progress, RoundProgress(Len(pushed) - 1, rounds))
             /\ get_debate_status.current_round =
                   [some |-> TRUE, round |-> Len(pushed)]
             /\ Len(pushed) \in 1..rounds

C30_Witness ==
    /\ status = "running"
    /\ rounds = MaxRoundsAllowed
    /\ Len(pushed) = MaxRoundsAllowed
    /\ get_debate_status.current_round.round = MaxRoundsAllowed
====
